---- MODULE Spec2Model ----
(***************************************************************************)
(* Model of the PromptClinic MCP server (src/server.py): the input schema  *)
(* PromptClinicInput, the tool prompt_clinic and the request cycle of the  *)
(* stateless HTTP workers that serve it.                                   *)
(*                                                                         *)
(* Text is modelled as a sequence of one-character strings, so that        *)
(* str.strip, the `in` operator and the f-string concatenation are         *)
(* computed character by character.  A character outside ASCII is written *)
(* as its code point ("U+2014").                                           *)
(***************************************************************************)
EXTENDS Integers, Sequences, FiniteSets, TLC

VARIABLES
    pc,         \* pc[w]: where worker w is in its request cycle
    request,    \* request[w]: the JSON arguments worker w received
    payload,    \* payload[w]: the validated PromptClinicInput
    output,     \* output[w]: the tool result or the validation error
    delivered   \* delivered[r]: the first response a client got for request r

vars == <<pc, request, payload, output, delivered>>

(***************************************************************************)
(* Bounds of the model.                                                    *)
(***************************************************************************)
MaxDraftLen == 2
MaxConstraints == 2
NumWorkers == 2

Workers == 1..NumWorkers

(***************************************************************************)
(* Python text operations.                                                 *)
(***************************************************************************)
Whitespace == {" ", "\t", "\n", "\r", "\f"}

RECURSIVE lstrip(_)
lstrip(s) ==
    IF s # <<>> /\ Head(s) \in Whitespace THEN lstrip(Tail(s)) ELSE s

RECURSIVE rstrip(_)
rstrip(s) ==
    IF s # <<>> /\ s[Len(s)] \in Whitespace
    THEN rstrip(SubSeq(s, 1, Len(s) - 1))
    ELSE s

\* str.strip()
strip(s) == rstrip(lstrip(s))

\* x in s
Contains(s, x) ==
    \/ x = <<>>
    \/ \E i \in 1..(Len(s) - Len(x) + 1) :
          s[i] = x[1] /\ SubSeq(s, i, i + Len(x) - 1) = x

\* sep.join(items)
RECURSIVE join(_, _)
join(sep, items) ==
    IF items = <<>> THEN <<>>
    ELSE IF Len(items) = 1 THEN items[1]
    ELSE items[1] \o sep \o join(sep, Tail(items))

\* [f(c) for c in items] with f(c) = "- " + c
RECURSIVE bullets(_)
bullets(items) ==
    IF items = <<>> THEN <<>>
    ELSE << <<"-", " ">> \o Head(items) >> \o bullets(Tail(items))

(***************************************************************************)
(* Values: a JSON field of the request is absent, null, a string or a list *)
(* of strings; a Python Optional[str] is None or a str.                    *)
(***************************************************************************)
Absent == [kind |-> "absent"]
JsonNull == [kind |-> "null"]
JsonStr(s) == [kind |-> "str", val |-> s]
JsonList(l) == [kind |-> "list", val |-> l]

None == [kind |-> "None"]
Str(s) == [kind |-> "str", val |-> s]

\* the truth value Python gives an Optional[str]
Truthy(v) == v.kind = "str" /\ v.val # <<>>

\* (v or "")
OrEmpty(v) == IF Truthy(v) THEN v.val ELSE <<>>

(***************************************************************************)
(* The literals of server.py.                                              *)
(***************************************************************************)
MinLength == 1

DefaultGoal ==
    << "A", "c", "t", " ", "a", "s", " ", "a", " ", "s", "e", "n", "i", "o", "r", " ",
       "d", "e", "v", " ", "a", "n", "d", " ", "r", "e", "w", "r", "i", "t", "e", " ",
       "m", "y", " ", "p", "r", "o", "m", "p", "t", ".", ".", ".", " ", "P", "r", "o",
       "d", "u", "c", "e", " ", "a", " ", "p", "r", "o", "d", "u", "c", "t", "i", "o",
       "n", "-", "g", "r", "a", "d", "e", " ", "s", "y", "s", "t", "e", "m", " ", "p",
       "r", "o", "m", "p", "t", " ", "+", " ", "t", "e", "s", "t", " ", "c", "a", "s",
       "e", "s" >>

DefaultConstraint1 ==
    << "B", "e", " ", "c", "o", "n", "c", "i", "s", "e" >>

DefaultConstraint2 ==
    << "N", "o", " ", "w", "e", "b", " ", "b", "r", "o", "w", "s", "i", "n", "g" >>

DefaultConstraint3 ==
    << "R", "e", "t", "u", "r", "n", " ", "J", "S", "O", "N" >>

DefaultAudience ==
    << "J", "r", " ", "D", "e", "v", "e", "l", "o", "p", "e", "r" >>

GenericGoal ==
    << "G", "e", "n", "e", "r", "a", "t", "e", " ", "h", "i", "g", "h", "-", "q", "u",
       "a", "l", "i", "t", "y", " ", "o", "u", "t", "p", "u", "t", " ", "t", "h", "a",
       "t", " ", "s", "a", "t", "i", "s", "f", "i", "e", "s", " ", "t", "h", "e", " ",
       "u", "s", "e", "r", "'", "s", " ", "i", "n", "t", "e", "n", "t", "." >>

GenericAudience ==
    << "G", "e", "n", "e", "r", "a", "l", " ", "t", "e", "c", "h", "n", "i", "c", "a",
       "l", " ", "a", "u", "d", "i", "e", "n", "c", "e" >>

DefaultConstraints == <<DefaultConstraint1, DefaultConstraint2, DefaultConstraint3>>

\* the f-string of prompt_clinic, cut at its four interpolation points
TemplateHead ==
    <<
        "\n",
        " ", " ", " ", " ", "F", "o", "l", "l", "o", "w", " ", "t", "h", "e", " ", "p", "r", "o", "c", "e", "s", "s", " ", "b", "e", "l", "o", "w", " ", "*", "b", "e", "f", "o", "r", "e", "*", " ", "p", "r", "o", "d", "u", "c", "i", "n", "g", " ", "t", "h", "e", " ", "f", "i", "n", "a", "l", " ", "a", "n", "s", "w", "e", "r", ".", "\n",
        "\n",
        " ", " ", " ", " ", "Y", "o", "u", " ", "a", "r", "e", " ", "S", "A", "R", "P", "I", " ", "U+2014", " ", "a", " ", "S", "e", "l", "f", "-", "A", "m", "p", "l", "i", "f", "y", "i", "n", "g", " ", "R", "e", "c", "u", "r", "s", "i", "v", "e", " ", "P", "r", "o", "m", "p", "t", " ", "I", "n", "t", "e", "l", "l", "i", "g", "e", "n", "c", "e", " ", "s", "y", "s", "t", "e", "m", ".", "\n",
        "\n",
        " ", " ", " ", " ", "F", "o", "r", " ", "e", "v", "e", "r", "y", " ", "p", "r", "o", "m", "p", "t", " ", "t", "a", "s", "k", ",", " ", "e", "x", "e", "c", "u", "t", "e", " ", "a", "n", " ", "i", "n", "f", "i", "n", "i", "t", "e", " ", "i", "m", "p", "r", "o", "v", "e", "m", "e", "n", "t", " ", "m", "i", "c", "r", "o", "-", "c", "y", "c", "l", "e", " ", "b", "e", "f", "o", "r", "e", " ", "d", "e", "l", "i", "v", "e", "r", "i", "n", "g", " ", "o", "u", "t", "p", "u", "t", ".", "\n",
        "\n",
        " ", " ", " ", " ", "U+2699", "U+FE0F", " ", "C", "Y", "C", "L", "E", " ", "A", "R", "C", "H", "I", "T", "E", "C", "T", "U", "R", "E", ":", "\n",
        "\n",
        " ", " ", " ", " ", "D", "e", "e", "p", " ", "I", "n", "t", "e", "n", "t", " ", "E", "x", "t", "r", "a", "c", "t", "i", "o", "n", "\n",
        "\n",
        " ", " ", " ", " ", "S", "u", "r", "f", "a", "c", "e", " ", "i", "n", "t", "e", "n", "t", "\n",
        "\n",
        " ", " ", " ", " ", "L", "a", "t", "e", "n", "t", " ", "i", "n", "t", "e", "n", "t", "\n",
        "\n",
        " ", " ", " ", " ", "M", "e", "t", "a", "-", "i", "n", "t", "e", "n", "t", " ", "(", "w", "h", "y", " ", "t", "h", "i", "s", " ", "m", "a", "t", "t", "e", "r", "s", ")", "\n",
        "\n",
        " ", " ", " ", " ", "E", "x", "p", "a", "n", "s", "i", "o", "n", " ", "M", "a", "p", "p", "i", "n", "g", "\n",
        "\n",
        " ", " ", " ", " ", "C", "o", "n", "t", "e", "x", "t", "u", "a", "l", " ", "e", "x", "t", "e", "n", "s", "i", "o", "n", "s", "\n",
        "\n",
        " ", " ", " ", " ", "C", "r", "o", "s", "s", "-", "d", "o", "m", "a", "i", "n", " ", "l", "e", "v", "e", "r", "a", "g", "e", " ", "p", "o", "i", "n", "t", "s", "\n",
        "\n",
        " ", " ", " ", " ", "R", "i", "s", "k", " ", "v", "e", "c", "t", "o", "r", "s", "\n",
        "\n",
        " ", " ", " ", " ", "T", "r", "i", "p", "l", "e", " ", "D", "i", "v", "e", "r", "g", "e", "n", "t", " ", "C", "o", "n", "s", "t", "r", "u", "c", "t", "i", "o", "n", "\n",
        " ", " ", " ", " ", "G", "e", "n", "e", "r", "a", "t", "e", ":", "\n",
        " ", " ", " ", " ", "U+2022", " ", "M", "i", "n", "i", "m", "a", "l", "i", "s", "t", " ", "P", "r", "e", "c", "i", "s", "i", "o", "n", " ", "M", "o", "d", "e", "l", "\n",
        " ", " ", " ", " ", "U+2022", " ", "M", "a", "x", "i", "m", "u", "m", " ", "C", "r", "e", "a", "t", "i", "v", "e", " ", "D", "i", "v", "e", "r", "g", "e", "n", "c", "e", " ", "M", "o", "d", "e", "l", "\n",
        " ", " ", " ", " ", "U+2022", " ", "S", "t", "r", "a", "t", "e", "g", "i", "c", " ", "I", "n", "t", "e", "g", "r", "a", "t", "i", "v", "e", " ", "M", "o", "d", "e", "l", "\n",
        "\n",
        " ", " ", " ", " ", "C", "o", "m", "p", "a", "r", "a", "t", "i", "v", "e", " ", "E", "v", "o", "l", "u", "t", "i", "o", "n", " ", "M", "a", "t", "r", "i", "x", "\n",
        " ", " ", " ", " ", "E", "v", "a", "l", "u", "a", "t", "e", " ", "e", "a", "c", "h", " ", "a", "c", "r", "o", "s", "s", ":", "\n",
        "\n",
        " ", " ", " ", " ", "C", "l", "a", "r", "i", "t", "y", " ", "D", "e", "n", "s", "i", "t", "y", "\n",
        "\n",
        " ", " ", " ", " ", "A", "d", "a", "p", "t", "a", "t", "i", "o", "n", " ", "E", "l", "a", "s", "t", "i", "c", "i", "t", "y", "\n",
        "\n",
        " ", " ", " ", " ", "I", "n", "n", "o", "v", "a", "t", "i", "o", "n", " ", "G", "r", "a", "d", "i", "e", "n", "t", "\n",
        "\n",
        " ", " ", " ", " ", "E", "x", "e", "c", "u", "t", "i", "o", "n", " ", "S", "c", "a", "l", "a", "b", "i", "l", "i", "t", "y", "\n",
        "\n",
        " ", " ", " ", " ", "S", "y", "n", "t", "h", "e", "t", "i", "c", " ", "F", "u", "s", "i", "o", "n", " ", "E", "n", "g", "i", "n", "e", "\n",
        " ", " ", " ", " ", "C", "o", "m", "b", "i", "n", "e", " ", "s", "t", "r", "o", "n", "g", "e", "s", "t", " ", "s", "t", "r", "u", "c", "t", "u", "r", "a", "l", " ", "g", "e", "n", "e", "s", ".", "\n",
        "\n",
        " ", " ", " ", " ", "R", "e", "f", "l", "e", "x", "i", "v", "e", " ", "S", "e", "l", "f", "-", "A", "u", "d", "i", "t", "\n",
        "\n",
        " ", " ", " ", " ", "W", "h", "e", "r", "e", " ", "d", "i", "d", " ", "r", "e", "a", "s", "o", "n", "i", "n", "g", " ", "c", "o", "m", "p", "r", "e", "s", "s", " ", "t", "o", "o", " ", "s", "o", "o", "n", "?", "\n",
        "\n",
        " ", " ", " ", " ", "W", "h", "e", "r", "e", " ", "d", "i", "d", " ", "c", "o", "m", "p", "l", "e", "x", "i", "t", "y", " ", "e", "x", "c", "e", "e", "d", " ", "n", "e", "c", "e", "s", "s", "i", "t", "y", "?", "\n",
        "\n",
        " ", " ", " ", " ", "W", "h", "a", "t", " ", "p", "r", "i", "n", "c", "i", "p", "l", "e", " ", "c", "a", "n", " ", "b", "e", " ", "g", "e", "n", "e", "r", "a", "l", "i", "z", "e", "d", " ", "f", "o", "r", " ", "f", "u", "t", "u", "r", "e", " ", "p", "r", "o", "m", "p", "t", "s", "?", "\n",
        "\n",
        " ", " ", " ", " ", "E", "v", "o", "l", "u", "t", "i", "o", "n", "a", "r", "y", " ", "C", "o", "m", "p", "r", "e", "s", "s", "i", "o", "n", "\n",
        " ", " ", " ", " ", "R", "e", "f", "i", "n", "e", " ", "f", "o", "r", " ", "e", "l", "e", "g", "a", "n", "c", "e", " ", "w", "i", "t", "h", "o", "u", "t", " ", "l", "o", "s", "s", " ", "o", "f", " ", "d", "e", "p", "t", "h", ".", "\n",
        "\n",
        " ", " ", " ", " ", "O", "u", "t", "p", "u", "t", " ", "D", "e", "l", "i", "v", "e", "r", "a", "b", "l", "e", "s", ":", "\n",
        " ", " ", " ", " ", "U+2022", " ", "F", "i", "n", "a", "l", " ", "M", "a", "s", "t", "e", "r", " ", "P", "r", "o", "m", "p", "t", "\n",
        " ", " ", " ", " ", "U+2022", " ", "E", "v", "o", "l", "u", "t", "i", "o", "n", " ", "S", "u", "m", "m", "a", "r", "y", "\n",
        " ", " ", " ", " ", "U+2022", " ", "M", "e", "t", "a", "-", "U", "p", "g", "r", "a", "d", "e", " ", "S", "u", "g", "g", "e", "s", "t", "i", "o", "n", "\n",
        "\n",
        " ", " ", " ", " ", "Y", "o", "u", "r", " ", "m", "a", "n", "d", "a", "t", "e", ":", "\n",
        " ", " ", " ", " ", "E", "v", "e", "r", "y", " ", "i", "t", "e", "r", "a", "t", "i", "o", "n", " ", "m", "u", "s", "t", " ", "o", "u", "t", "p", "e", "r", "f", "o", "r", "m", " ", "t", "h", "e", " ", "p", "r", "e", "v", "i", "o", "u", "s", " ", "a", "c", "r", "o", "s", "s", " ", "a", "t", " ", "l", "e", "a", "s", "t", " ", "o", "n", "e", " ", "d", "i", "m", "e", "n", "s", "i", "o", "n", ".", "\"", "\n",
        "\n",
        " ", " ", " ", " ", "U", "S", "E", "R", " ", "I", "N", "P", "U", "T", "\n",
        " ", " ", " ", " ", "T", "o", "p", "i", "c", "/", "d", "r", "a", "f", "t", ":", "\n",
        " ", " ", " ", " "
    >>

TemplateGoal ==
    <<
        "\n",
        "\n",
        " ", " ", " ", " ", "G", "o", "a", "l", ":", "\n",
        " ", " ", " ", " "
    >>

TemplateAudience ==
    <<
        "\n",
        "\n",
        " ", " ", " ", " ", "A", "u", "d", "i", "e", "n", "c", "e", ":", "\n",
        " ", " ", " ", " "
    >>

TemplateConstraints ==
    <<
        "\n",
        "\n",
        " ", " ", " ", " ", "C", "o", "n", "s", "t", "r", "a", "i", "n", "t", "s", ":", "\n",
        " ", " ", " ", " "
    >>

TemplateTail == << "\n" >>

NoneLine == << "-", " ", "(", "n", "o", "n", "e", ")" >>

Step1 ==
    << "R", "e", "s", "t", "a", "t", "e", " ", "t", "h", "e", " ", "r", "e", "q", "u",
       "e", "s", "t", " ", "+", " ", "g", "o", "a", "l", " ", "c", "l", "e", "a", "r",
       "l", "y" >>

Step2 ==
    << "G", "e", "n", "e", "r", "a", "t", "e", " ", "4", " ", "T", "o", "T", " ", "b",
       "r", "a", "n", "c", "h", "e", "s", " ", "w", "i", "t", "h", " ", "s", "t", "e",
       "p", "s", " ", "+", " ", "t", "r", "a", "d", "e", "o", "f", "f", "s" >>

Step3 ==
    << "S", "c", "o", "r", "e", " ", "+", " ", "s", "e", "l", "e", "c", "t", " ", "b",
       "e", "s", "t", " ", "b", "r", "a", "n", "c", "h" >>

Step4 ==
    << "A", "d", "d", " ", "v", "e", "r", "i", "f", "i", "c", "a", "t", "i", "o", "n",
       " ", "g", "a", "t", "e", "s" >>

Step5 ==
    << "R", "e", "t", "u", "r", "n", " ", "i", "n", " ", "s", "t", "r", "i", "c", "t",
       " ", "f", "i", "n", "a", "l", " ", "f", "o", "r", "m", "a", "t" >>

RiskTemplateVar ==
    << "T", "e", "m", "p", "l", "a", "t", "e", " ", "v", "a", "r", "i", "a", "b", "l",
       "e", " ", "'", "{", "{", "t", "o", "p", "i", "c", "}", "}", "'", " ", "i", "s",
       " ", "p", "r", "e", "s", "e", "n", "t", " ", "b", "u", "t", " ", "n", "o", "t",
       " ", "b", "o", "u", "n", "d", " ", "t", "o", " ", "a", " ", "c", "o", "n", "c",
       "r", "e", "t", "e", " ", "v", "a", "l", "u", "e", ";", " ", "c", "l", "a", "r",
       "i", "f", "y", " ", "o", "r", " ", "p", "r", "o", "v", "i", "d", "e", " ", "e",
       "x", "a", "m", "p", "l", "e", "s", "." >>

RiskGoal ==
    << "G", "o", "a", "l", " ", "i", "s", " ", "m", "i", "s", "s", "i", "n", "g", ";",
       " ", "t", "o", "o", "l", " ", "i", "n", "f", "e", "r", "r", "e", "d", " ", "a",
       " ", "g", "e", "n", "e", "r", "i", "c", " ", "g", "o", "a", "l", " ", "(", "m",
       "a", "y", " ", "r", "e", "d", "u", "c", "e", " ", "p", "r", "e", "c", "i", "s",
       "i", "o", "n", ")", "." >>

RiskConstraints ==
    << "N", "o", " ", "c", "o", "n", "s", "t", "r", "a", "i", "n", "t", "s", " ", "p",
       "r", "o", "v", "i", "d", "e", "d", ";", " ", "o", "u", "t", "p", "u", "t", " ",
       "m", "a", "y", " ", "b", "e", " ", "v", "e", "r", "b", "o", "s", "e", " ", "o",
       "r", " ", "u", "n", "d", "e", "r", "-", "s", "p", "e", "c", "i", "f", "i", "e",
       "d", "." >>

\* the three substrings line 160 looks for
OpenBraces == <<"{", "{">>
CloseBraces == <<"}", "}">>
Topic == <<"t", "o", "p", "i", "c">>

(***************************************************************************)
(* class PromptClinicInput: what the schema accepts and the model it       *)
(* builds.  A field left out of the request takes the Field default.       *)
(***************************************************************************)
draft_ok(f) == f.kind = "str" /\ Len(f.val) >= MinLength
goal_ok(f) == f.kind \in {"absent", "null", "str"}
constraints_ok(f) == f.kind \in {"absent", "list"}
audience_ok(f) == f.kind \in {"absent", "null", "str"}

Valid(req) ==
    /\ draft_ok(req.draft)
    /\ goal_ok(req.goal)
    /\ constraints_ok(req.constraints)
    /\ audience_ok(req.audience)

optional_field(f, default) ==
    IF f.kind = "absent" THEN Str(default)
    ELSE IF f.kind = "null" THEN None
    ELSE Str(f.val)

PromptClinicInput(req) ==
    [ draft       |-> req.draft.val,
      goal        |-> optional_field(req.goal, DefaultGoal),
      constraints |-> IF req.constraints.kind = "absent"
                      THEN DefaultConstraints
                      ELSE req.constraints.val,
      audience    |-> optional_field(req.audience, DefaultAudience) ]

(***************************************************************************)
(* def prompt_clinic(payload), one definition per local of the function.   *)
(***************************************************************************)
draft(p) == strip(p.draft)
goal(p) == strip(OrEmpty(p.goal))
audience(p) == strip(OrEmpty(p.audience))
constraints(p) == p.constraints

inferred_goal(p) == IF goal(p) # <<>> THEN goal(p) ELSE GenericGoal
inferred_audience(p) ==
    IF audience(p) # <<>> THEN audience(p) ELSE GenericAudience

\* slip: an empty list is rendered as the schema's default list
constraint_lines_defaulted(p) ==
    IF constraints(p) # <<>>
    THEN join(<<"\n">>, bullets(constraints(p)))
    ELSE join(<<"\n">>, bullets(DefaultConstraints))

constraint_lines(p) ==
    IF constraints(p) # <<>>
    THEN join(<<"\n">>, bullets(constraints(p)))
    ELSE NoneLine

\* slip: the Topic/draft slot is filled with the goal
upgraded_goal_for_draft(p) ==
    strip(TemplateHead \o inferred_goal(p)
          \o TemplateGoal \o inferred_goal(p)
          \o TemplateAudience \o inferred_audience(p)
          \o TemplateConstraints \o constraint_lines(p)
          \o TemplateTail)

upgraded(p) ==
    strip(TemplateHead \o draft(p)
          \o TemplateGoal \o inferred_goal(p)
          \o TemplateAudience \o inferred_audience(p)
          \o TemplateConstraints \o constraint_lines(p)
          \o TemplateTail)

\* slip: a step is lost from the list
checklist_short == <<Step1, Step2, Step3, Step5>>

checklist == <<Step1, Step2, Step3, Step4, Step5>>

\* slip: only the literal {{topic}} is looked for
has_template_variable_literal(p) ==
    Contains(draft(p), OpenBraces \o Topic \o CloseBraces)

has_template_variable(p) ==
    /\ Contains(draft(p), OpenBraces)
    /\ Contains(draft(p), CloseBraces)
    /\ Contains(draft(p), Topic)

\* slip: the list is a module-level one that outlives the call, so a call
\* starts from the risks of a response already sent
fresh_risks_shared ==
    LET sent == {r \in DOMAIN delivered : delivered[r].kind = "result"}
    IN  IF sent = {} THEN <<>> ELSE delivered[CHOOSE r \in sent : TRUE].risks

\* risks = []
fresh_risks == <<>>

\* slip: the goal check runs before the template-variable check
risks_goal_first(p) ==
    LET r0 == fresh_risks
        r1 == IF ~Truthy(p.goal) THEN Append(r0, RiskGoal) ELSE r0
        r2 == IF has_template_variable(p)
              THEN Append(r1, RiskTemplateVar) ELSE r1
        r3 == IF constraints(p) = <<>>
              THEN Append(r2, RiskConstraints) ELSE r2
    IN  r3

risks(p) ==
    LET r0 == fresh_risks
        r1 == IF has_template_variable(p)
              THEN Append(r0, RiskTemplateVar) ELSE r0
        r2 == IF ~Truthy(p.goal) THEN Append(r1, RiskGoal) ELSE r1
        r3 == IF constraints(p) = <<>>
              THEN Append(r2, RiskConstraints) ELSE r2
    IN  r3

NoOutput ==
    [kind |-> "none", upgraded_prompt |-> <<>>,
     checklist |-> <<>>, risks |-> <<>>]

ValidationError ==
    [kind |-> "error", upgraded_prompt |-> <<>>,
     checklist |-> <<>>, risks |-> <<>>]

PromptClinicOutput(u, c, r) ==
    [kind |-> "result", upgraded_prompt |-> u, checklist |-> c, risks |-> r]

prompt_clinic(p) == PromptClinicOutput(upgraded(p), checklist, risks(p))

(***************************************************************************)
(* The requests the model draws from.                                      *)
(***************************************************************************)
Strings(chars, n) == UNION {[1..k -> chars] : k \in 0..n}

DraftChars == {" ", "{"}
SampleDrafts ==
    { OpenBraces \o Topic \o CloseBraces,
      <<" ">> \o OpenBraces \o Topic \o CloseBraces \o <<"\n">>,
      CloseBraces \o Topic \o OpenBraces,
      OpenBraces \o Topic,
      Topic \o CloseBraces,
      OpenBraces \o CloseBraces,
      Topic,
      <<"{", "\n", " ", "{">> }
Drafts == Strings(DraftChars, MaxDraftLen) \cup SampleDrafts

Goals == { <<>>, <<" ">>, <<"#">>, <<" ", "#", " ">>, GenericGoal }
Audiences == { <<>>, <<" ", "@">> }
ConstraintItems == { <<"%">>, <<"%", " ">> }
ConstraintLists == Strings(ConstraintItems, MaxConstraints)

DraftFields == {Absent, JsonNull} \cup {JsonStr(s) : s \in Drafts}
GoalFields == {Absent, JsonNull} \cup {JsonStr(s) : s \in Goals}
AudienceFields == {Absent, JsonNull} \cup {JsonStr(s) : s \in Audiences}
ConstraintFields ==
    {Absent, JsonNull} \cup {JsonList(l) : l \in ConstraintLists}

Requests ==
    [ draft : DraftFields, goal : GoalFields,
      constraints : ConstraintFields, audience : AudienceFields ]

\* the requests the concurrent workers are sent
ConcRequests ==
    { [ draft |-> JsonStr(OpenBraces \o Topic \o CloseBraces),
        goal |-> JsonNull, constraints |-> JsonList(<<>>),
        audience |-> Absent ],
      [ draft |-> JsonStr(<<" ", "{">>), goal |-> JsonStr(<<"#">>),
        constraints |-> JsonList(<< <<"%">> >>),
        audience |-> JsonStr(<<" ", "@">>) ],
      [ draft |-> JsonStr(<<" ">>), goal |-> Absent,
        constraints |-> Absent, audience |-> JsonNull ],
      [ draft |-> JsonStr(<<>>), goal |-> Absent,
        constraints |-> Absent, audience |-> Absent ] }

(***************************************************************************)
(* The request cycle of a worker.                                          *)
(***************************************************************************)
NoRequest ==
    [draft |-> Absent, goal |-> Absent,
     constraints |-> Absent, audience |-> Absent]
NoPayload ==
    [draft |-> <<>>, goal |-> None, constraints |-> <<>>, audience |-> None]

Init ==
    /\ pc = [w \in Workers |-> "idle"]
    /\ request = [w \in Workers |-> NoRequest]
    /\ payload = [w \in Workers |-> NoPayload]
    /\ output = [w \in Workers |-> NoOutput]
    /\ delivered = [r \in ConcRequests |-> NoOutput]

\* the dispatcher hands worker w a tools/call of prompt_clinic
Receive(w, req) ==
    /\ pc[w] = "idle"
    /\ pc' = [pc EXCEPT ![w] = "received"]
    /\ request' = [request EXCEPT ![w] = req]
    /\ UNCHANGED <<payload, output, delivered>>

\* FastMCP builds the PromptClinicInput argument, or fails the call
Validate(w) ==
    /\ pc[w] = "received"
    /\ IF Valid(request[w])
       THEN /\ payload' = [payload EXCEPT ![w] = PromptClinicInput(request[w])]
            /\ pc' = [pc EXCEPT ![w] = "validated"]
            /\ UNCHANGED output
       ELSE /\ output' = [output EXCEPT ![w] = ValidationError]
            /\ pc' = [pc EXCEPT ![w] = "rejected"]
            /\ UNCHANGED payload
    /\ UNCHANGED <<request, delivered>>

\* the body of prompt_clinic runs on the validated payload
ToolCall(w) ==
    /\ pc[w] = "validated"
    /\ output' = [output EXCEPT ![w] = prompt_clinic(payload[w])]
    /\ pc' = [pc EXCEPT ![w] = "done"]
    /\ UNCHANGED <<request, payload, delivered>>

\* the response goes back to the client and the worker is free again
Respond(w) ==
    /\ pc[w] \in {"done", "rejected"}
    /\ delivered' =
         IF delivered[request[w]].kind = "none"
         THEN [delivered EXCEPT ![request[w]] = output[w]]
         ELSE delivered
    /\ pc' = [pc EXCEPT ![w] = "idle"]
    /\ request' = [request EXCEPT ![w] = NoRequest]
    /\ payload' = [payload EXCEPT ![w] = NoPayload]
    /\ output' = [output EXCEPT ![w] = NoOutput]

\* one invocation, over every request of Requests
Next ==
    \/ \E req \in Requests : Receive(1, req)
    \/ Validate(1)
    \/ ToolCall(1)

Spec == Init /\ [][Next]_vars

\* the workers serve the requests of ConcRequests side by side
NextConc ==
    \E w \in Workers :
        \/ \E req \in ConcRequests : Receive(w, req)
        \/ Validate(w)
        \/ ToolCall(w)
        \/ Respond(w)

SpecConc == Init /\ [][NextConc]_vars

(***************************************************************************)
(* Properties.                                                             *)
(***************************************************************************)
Done(w) == pc[w] = "done"

InSeq(x, s) == \E i \in 1..Len(s) : s[i] = x

EndsWith(s, x) ==
    Len(s) >= Len(x) /\ SubSeq(s, Len(s) - Len(x) + 1, Len(s)) = x

Count(x, s) == Cardinality({i \in 1..Len(s) : s[i] = x})

\* a draft field that is missing, empty or made of whitespace only
BlankDraft(f) == f.kind # "str" \/ strip(f.val) = <<>>

\* "{{", "}}" and "topic" all occur in the text
TemplateStyle(s) ==
    /\ Contains(s, <<"{", "{">>)
    /\ Contains(s, <<"}", "}">>)
    /\ Contains(s, <<"t", "o", "p", "i", "c">>)

GoalHeader == <<"G", "o", "a", "l", ":", "\n", " ", " ", " ", " ">>
AudienceHeader ==
    <<"\n", "\n", " ", " ", " ", " ",
      "A", "u", "d", "i", "e", "n", "c", "e", ":">>
ConstraintsHeader ==
    <<"C", "o", "n", "s", "t", "r", "a", "i", "n", "t", "s", ":", "\n",
      " ", " ", " ", " ">>

\* the Goal section holds exactly the text g
GoalSection(u, g) == Contains(u, GoalHeader \o g \o AudienceHeader)

\* the Constraints section, the last of the prompt, holds exactly the lines
ConstraintsSection(u, lines) == EndsWith(u, ConstraintsHeader \o lines)

DefaultConstraintLines ==
    <<"-", " ">> \o <<"B", "e", " ", "c", "o", "n", "c", "i", "s", "e">>
    \o <<"\n", "-", " ">>
    \o <<"N", "o", " ", "w", "e", "b", " ",
         "b", "r", "o", "w", "s", "i", "n", "g">>
    \o <<"\n", "-", " ">>
    \o <<"R", "e", "t", "u", "r", "n", " ", "J", "S", "O", "N">>

NoneConstraintLine == <<"-", " ", "(", "n", "o", "n", "e", ")">>

\* C1: a request whose draft is missing, empty or whitespace-only is
\* rejected by validation: it never reaches the tool body and no result is
\* produced for it.
C1_BlankDraftRejected ==
    \A w \in Workers :
        BlankDraft(request[w].draft) =>
            /\ pc[w] \notin {"validated", "done"}
            /\ output[w].kind # "result"

\* C2: for every valid request, a goal left out of the request gives the
\* inferred-goal warning and the generic goal sentence in the prompt; a
\* goal that is supplied appears (trimmed, as the function normalises it)
\* in the prompt.
C2_GoalOmittedOrSupplied ==
    \A w \in Workers :
        Done(w) =>
            /\ request[w].goal.kind = "absent" =>
                  /\ InSeq(RiskGoal, output[w].risks)
                  /\ Contains(output[w].upgraded_prompt, GenericGoal)
            /\ request[w].goal.kind = "str" =>
                  Contains(output[w].upgraded_prompt,
                           strip(request[w].goal.val))

\* C3: for every valid request, risks holds the under-specified-constraints
\* warning exactly when the constraints field is empty or left out.
C3_ConstraintsWarningIff ==
    \A w \in Workers :
        Done(w) =>
            ( InSeq(RiskConstraints, output[w].risks)
              <=> \/ request[w].constraints.kind = "absent"
                  \/ request[w].constraints = JsonList(<<>>) )

\* C4: whatever goal, audience and constraints are, the upgraded prompt
\* contains the draft, stripped of leading and trailing whitespace, as a
\* contiguous substring.
C4_DraftVerbatim ==
    \A w \in Workers :
        Done(w) =>
            Contains(output[w].upgraded_prompt, strip(request[w].draft.val))

C4_Witness ==
    /\ Done(1)
    /\ request[1].draft.val = <<" ", "{">>
    /\ request[1].goal = JsonStr(<<" ", "#", " ">>)
    /\ Contains(output[1].upgraded_prompt, <<"{">>)

\* C5: if the draft as sent (untrimmed) contains "{{", "}}" and "topic",
\* risks holds the unbound-template-variable warning, whatever goal,
\* audience and constraints are.
C5_TemplateVariableWarned ==
    \A w \in Workers :
        Done(w) /\ TemplateStyle(request[w].draft.val) =>
            InSeq(RiskTemplateVar, output[w].risks)

C5_Witness ==
    /\ Done(1)
    /\ request[1].draft.val
         = <<" ", "{", "{", "t", "o", "p", "i", "c", "}", "}", "\n">>
    /\ output[1].risks = <<RiskTemplateVar>>

\* C6: the checklist of every result is the same five items in the same
\* order, whatever the request.
C6_ChecklistFixed ==
    \A w \in Workers :
        Done(w) =>
            /\ Len(output[w].checklist) = 5
            /\ output[w].checklist[1] = Step1
            /\ output[w].checklist[2] = Step2
            /\ output[w].checklist[3] = Step3
            /\ output[w].checklist[4] = Step4
            /\ output[w].checklist[5] = Step5

C6_Witness ==
    /\ Done(1)
    /\ request[1].goal = JsonNull
    /\ request[1].constraints = JsonList(<< <<"%">>, <<"%", " ">> >>)
    /\ Len(output[1].checklist) = 5

\* C7: risks has zero to three items, each warning at most once, in the
\* order template variable, goal, constraints; each warning is there or
\* not according to its own field of the payload alone (draft, goal,
\* constraints).
C7_RisksOrderedIndependent ==
    \A w \in Workers :
        Done(w) =>
            LET r == output[w].risks
                t == TemplateStyle(payload[w].draft)
                g == payload[w].goal \in {None, Str(<<>>)}
                c == payload[w].constraints = <<>>
            IN  /\ Len(r) <= 3
                /\ Count(RiskTemplateVar, r) <= 1
                /\ Count(RiskGoal, r) <= 1
                /\ Count(RiskConstraints, r) <= 1
                /\ r = (IF t THEN <<RiskTemplateVar>> ELSE <<>>)
                       \o (IF g THEN <<RiskGoal>> ELSE <<>>)
                       \o (IF c THEN <<RiskConstraints>> ELSE <<>>)

C7_Witness ==
    /\ Done(1)
    /\ output[1].risks = <<RiskTemplateVar, RiskConstraints>>

\* C8: two invocations with equal requests give equal responses, whether
\* they run side by side on two workers or one after the other with other
\* invocations in between.
C8_Deterministic ==
    \A w \in Workers :
        pc[w] \in {"done", "rejected"} =>
            /\ delivered[request[w]].kind # "none" =>
                  output[w] = delivered[request[w]]
            /\ \A v \in Workers :
                  pc[v] \in {"done", "rejected"} /\ request[v] = request[w]
                      => output[v] = output[w]

C8_Witness ==
    /\ Done(1)
    /\ pc[2] = "validated"
    /\ request[2] # request[1]
    /\ delivered[request[1]].kind = "result"
    /\ delivered[request[2]].kind = "result"
    /\ Len(output[1].risks) = 3

C10_GenericGoalWarned ==
    \A w \in Workers :
        ( /\ Done(w)
          /\ strip(OrEmpty(payload[w].goal)) = <<>>
          /\ GoalSection(output[w].upgraded_prompt, GenericGoal) )
        => InSeq(RiskGoal, output[w].risks)

====
